---- MODULE Spec2Model ----
(***************************************************************************)
(* Model of src/app.py: the FEC loader lire_fec, the receivables           *)
(* aggregator calc_creances_ouvertes and the Streamlit script that chains  *)
(* them.                                                                   *)
(*                                                                         *)
(* Representation.                                                         *)
(*  - a string is a tuple of one-character strings, <<"4","1","1">>;       *)
(*  - a missing value (pandas NaN / NaT / None) is the empty tuple <<>>;   *)
(*  - an amount is <<v>> with v an integer number of thousandths;          *)
(*  - a timestamp is <<year, month, day, hour>>, a date <<year,month,day>>;*)
(*  - a DataFrame is [columns |-> Seq(name), rows |-> Seq(Seq(value))],    *)
(*    each row aligned with columns.                                       *)
(***************************************************************************)
EXTENDS Integers, Sequences, FiniteSets, TLC

VARIABLES uploaded_file, pc, sepIdx, df, colIdx, message,
          df_fec, date_anciennete, df_ouvert, shown, calls

vars == <<uploaded_file, pc, sepIdx, df, colIdx, message,
          df_fec, date_anciennete, df_ouvert, shown, calls>>

\* ------------------------------------------------------------------------
\* Values
\* ------------------------------------------------------------------------

\* pandas NaN / NaT, Python None
NaN == <<>>

IsNull(v) == v = NaN

\* Code points of the characters the bounded inputs use (Python compares
\* str by code point).
Ord ==
  (" " :> 32) @@ ("," :> 44) @@ ("-" :> 45) @@ ("." :> 46) @@
  ("0" :> 48) @@ ("1" :> 49) @@ ("2" :> 50) @@ ("3" :> 51) @@ ("4" :> 52) @@
  ("5" :> 53) @@ ("6" :> 54) @@ ("7" :> 55) @@ ("8" :> 56) @@ ("9" :> 57) @@
  ("C" :> 67) @@ ("I" :> 73) @@ ("a" :> 97) @@ ("n" :> 110) @@ ("x" :> 120)

Digits == {"0", "1", "2", "3", "4", "5", "6", "7", "8", "9"}

DigitVal(c) == Ord[c] - 48

\* str < str, lexicographic by code point
RECURSIVE StrLess(_, _)
StrLess(a, b) ==
  IF b = <<>> THEN FALSE
  ELSE IF a = <<>> THEN TRUE
  ELSE IF Ord[Head(a)] # Ord[Head(b)] THEN Ord[Head(a)] < Ord[Head(b)]
  ELSE StrLess(Tail(a), Tail(b))

\* Timestamp < Timestamp
TsLess(a, b) ==
  \E i \in 1..4 : a[i] < b[i] /\ \A j \in 1..(i - 1) : a[j] = b[j]

\* datetime.date <= datetime.date
DateLeq(a, b) ==
  a = b \/ \E i \in 1..3 : a[i] < b[i] /\ \A j \in 1..(i - 1) : a[j] = b[j]

\* ------------------------------------------------------------------------
\* DataFrame helpers
\* ------------------------------------------------------------------------

HasCol(f, name) == \E i \in 1..Len(f.columns) : f.columns[i] = name

ColCount(f, name) == Cardinality({i \in 1..Len(f.columns) : f.columns[i] = name})

ColIndex(f, name) == CHOOSE i \in 1..Len(f.columns) : f.columns[i] = name

Cell(f, r, name) == f.rows[r][ColIndex(f, name)]

\* df[name] = vals : replaces the column, or appends it when it is new
SetCol(f, name, vals) ==
  LET frame == f
      col == vals
  IN IF HasCol(frame, name)
     THEN LET c == ColIndex(frame, name)
          IN [frame EXCEPT !.rows =
                [r \in 1..Len(frame.rows) |-> [frame.rows[r] EXCEPT ![c] = col[r]]]]
     ELSE [columns |-> Append(frame.columns, name),
           rows |-> [r \in 1..Len(frame.rows) |-> Append(frame.rows[r], col[r])]]

\* df[mask] : the rows whose index is in keep, in order
RECURSIVE SelectRows(_, _, _)
SelectRows(rows, keep, r) ==
  IF r > Len(rows) THEN <<>>
  ELSE (IF r \in keep THEN <<rows[r]>> ELSE <<>>) \o SelectRows(rows, keep, r + 1)

\* ------------------------------------------------------------------------
\* Column names
\* ------------------------------------------------------------------------

Debit == <<"D", "e", "b", "i", "t">>
Credit == <<"C", "r", "e", "d", "i", "t">>
PieceDate == <<"P", "i", "e", "c", "e", "D", "a", "t", "e">>
PieceRef == <<"P", "i", "e", "c", "e", "R", "e", "f">>
CompteNum == <<"C", "o", "m", "p", "t", "e", "N", "u", "m">>
CompteLib == <<"C", "o", "m", "p", "t", "e", "L", "i", "b">>
CompAuxNum == <<"C", "o", "m", "p", "A", "u", "x", "N", "u", "m">>
CompAuxLib == <<"C", "o", "m", "p", "A", "u", "x", "L", "i", "b">>
Solde_ligne == <<"S", "o", "l", "d", "e", "_", "l", "i", "g", "n", "e">>

\* ------------------------------------------------------------------------
\* lire_fec: conversions
\* ------------------------------------------------------------------------

RECURSIVE LStrip(_)
LStrip(s) == IF s # <<>> /\ Head(s) = " " THEN LStrip(Tail(s)) ELSE s

RECURSIVE RStrip(_)
RStrip(s) ==
  IF s # <<>> /\ s[Len(s)] = " " THEN RStrip(SubSeq(s, 1, Len(s) - 1)) ELSE s

\* str.strip()
Strip(s) == LET left == LStrip(s) IN RStrip(left)

\* df.columns = [c.strip() for c in df.columns]
StripColumns(f) ==
  [f EXCEPT !.columns = [i \in 1..Len(f.columns) |-> Strip(f.columns[i])]]

\* .str.replace(old, "", regex=False) on one cell; NaN stays NaN
StrRemove(s, old) == SelectSeq(s, LAMBDA c : c # old)

\* .str.replace(old, new, regex=False) on one cell, one character for another
StrReplace(s, old, new) == [i \in 1..Len(s) |-> IF s[i] = old THEN new ELSE s[i]]

\* .str.replace(" ", "").str.replace(",", ".")
NormalizeAmount(s) ==
  LET noSpace == StrRemove(s, " ") IN StrReplace(noSpace, ",", ".")

AllDigits(s) == \A i \in 1..Len(s) : s[i] \in Digits

RECURSIVE DigitsValue(_)
DigitsValue(s) ==
  IF s = <<>> THEN 0
  ELSE 10 * DigitsValue(SubSeq(s, 1, Len(s) - 1)) + DigitVal(s[Len(s)])

\* Decimals kept by the model's amounts (thousandths)
Decimals == 3

Unsigned(s) == IF s # <<>> /\ Head(s) = "-" THEN Tail(s) ELSE s

PointAt(s) == IF \E i \in 1..Len(s) : s[i] = "."
              THEN CHOOSE i \in 1..Len(s) : s[i] = "." /\ \A j \in 1..(i - 1) : s[j] # "."
              ELSE Len(s) + 1

IntPart(s) == SubSeq(s, 1, PointAt(s) - 1)

FracPart(s) == SubSeq(s, PointAt(s) + 1, Len(s))

\* float(s) succeeds: [-]digits[.digits], as far as the bounded cells go
IsFloatLiteral(s) ==
  LET u == Unsigned(s) IN
    /\ IntPart(u) # <<>>
    /\ AllDigits(IntPart(u))
    /\ AllDigits(FracPart(u))
    /\ Len(FracPart(u)) <= Decimals

RECURSIVE Pow10(_)
Pow10(n) == IF n = 0 THEN 1 ELSE 10 * Pow10(n - 1)

\* float(s), in thousandths
FloatValue(s) ==
  LET u == Unsigned(s)
      m == DigitsValue(IntPart(u)) * Pow10(Decimals)
             + DigitsValue(FracPart(u)) * Pow10(Decimals - Len(FracPart(u)))
  IN IF s # u THEN 0 - m ELSE m

\* the column after .str.replace(...).str.replace(...), before .astype(float)
NormalizedCol(f, col) ==
  [r \in 1..Len(f.rows) |-> LET cell == Cell(f, r, col) IN NormalizeAmount(cell)]

\* .astype(float) raises ValueError on a cell that is no float literal
AmountColRaises(f, col) ==
  LET normalized == NormalizedCol(f, col) IN
    \E r \in 1..Len(f.rows) :
      /\ ~IsNull(Cell(f, r, col))
      /\ ~IsFloatLiteral(normalized[r])

\* df[col] = df[col].str.replace(...).str.replace(...).astype(float)
ConvertAmountCol(f, col) ==
  LET normalized == NormalizedCol(f, col)
      floats == [r \in 1..Len(f.rows) |->
                   IF IsNull(Cell(f, r, col)) THEN NaN
                   ELSE <<FloatValue(normalized[r])>>]
  IN SetCol(f, col, floats)

IsLeap(y) == (y % 4 = 0 /\ y % 100 # 0) \/ y % 400 = 0

DaysIn(y, m) ==
  IF m = 2 THEN (IF IsLeap(y) THEN 29 ELSE 28)
  ELSE IF m \in {4, 6, 9, 11} THEN 30 ELSE 31

\* a date literal <<y, m, d, h>> names a real instant
IsDateLiteral(c) ==
  /\ Len(c) = 4
  /\ c[2] \in 1..12
  /\ c[3] \in 1..DaysIn(c[1], c[2])
  /\ c[4] \in 0..23

\* pd.to_datetime(cell, errors="coerce")
ToDatetime(c) == IF IsDateLiteral(c) THEN c ELSE NaN

\* df["PieceDate"] = pd.to_datetime(df["PieceDate"], errors="coerce")
ConvertDates(f) ==
  LET dates == [r \in 1..Len(f.rows) |->
                  LET cell == Cell(f, r, PieceDate) IN ToDatetime(cell)]
  IN SetCol(f, PieceDate, dates)

\* ------------------------------------------------------------------------
\* calc_creances_ouvertes
\* ------------------------------------------------------------------------

\* No copy: the local name is bound to the caller's object
DfAlias(d) == [obj |-> "arg", frame |-> d]

\* df.copy(): a new object holding the same rows
DfCopy(d) == [obj |-> "copy", frame |-> d]

\* .astype(str) on one cell: NaN becomes the string "nan"
AsTypeStr(v) == IF IsNull(v) THEN <<"n", "a", "n">> ELSE v

\* df["CompteNum"] = df["CompteNum"].astype(str)
CompteNumAsStr(f) ==
  LET strs == [r \in 1..Len(f.rows) |->
                 LET cell == Cell(f, r, CompteNum) IN AsTypeStr(cell)]
  IN SetCol(f, CompteNum, strs)

Prefix411 == <<"4", "1", "1">>

\* str.startswith(prefix)
StartsWith(s, prefix) ==
  Len(s) >= Len(prefix) /\ SubSeq(s, 1, Len(prefix)) = prefix

\* "411" looked for anywhere in the account code
MaskClientsAnywhere(f) ==
  {r \in 1..Len(f.rows) :
     \E k \in 0..Len(Cell(f, r, CompteNum)) :
       StartsWith(SubSeq(Cell(f, r, CompteNum), k + 1, Len(Cell(f, r, CompteNum))),
                  Prefix411)}

\* mask_clients = df["CompteNum"].str.startswith("411")
MaskClients(f) ==
  {r \in 1..Len(f.rows) : StartsWith(Cell(f, r, CompteNum), Prefix411)}

\* df_clients = df[mask_clients].copy()
DfClients(f) ==
  LET rows == f.rows
      mask == MaskClients(f)
  IN [columns |-> f.columns, rows |-> SelectRows(rows, mask, 1)]

\* float - float, NaN when either is NaN
Minus(a, b) == IF IsNull(a) \/ IsNull(b) THEN NaN ELSE <<a[1] - b[1]>>

\* df_clients["Solde_ligne"] = df_clients["Debit"] - df_clients["Credit"]
WithSoldeLigne(f) ==
  LET lines == [r \in 1..Len(f.rows) |->
                  LET debit == Cell(f, r, Debit)
                      credit == Cell(f, r, Credit)
                  IN Minus(debit, credit)]
  IN SetCol(f, Solde_ligne, lines)

\* if col not in df_clients.columns: df_clients[col] = df_clients[from]
WithDefaultCol(f, col, from) ==
  IF HasCol(f, col) THEN f
  ELSE LET copied == [r \in 1..Len(f.rows) |-> Cell(f, r, from)]
       IN SetCol(f, col, copied)

WithAuxCols(f) ==
  LET withNum == WithDefaultCol(f, CompAuxNum, CompteNum)
  IN WithDefaultCol(withNum, CompAuxLib, CompteLib)

\* group_cols
GroupKey(f, r) ==
  <<Cell(f, r, CompAuxNum), Cell(f, r, CompAuxLib), Cell(f, r, PieceRef),
    Cell(f, r, PieceDate)>>

\* a < b within one column, missing values last; column 4 of a key is a date
ValLess(a, b, isDate) ==
  IF IsNull(a) THEN FALSE
  ELSE IF IsNull(b) THEN TRUE
  ELSE IF isDate THEN TsLess(a, b) ELSE StrLess(a, b)

KeyLess(a, b) ==
  \E i \in 1..4 : ValLess(a[i], b[i], i = 4) /\ \A j \in 1..(i - 1) : a[j] = b[j]

\* groupby(group_cols, dropna=False): the keys, sorted, missing values kept
RECURSIVE SortKeys(_)
SortKeys(S) ==
  IF S = {} THEN <<>>
  ELSE LET m == CHOOSE k \in S : \A o \in S \ {k} : KeyLess(k, o)
           others == S \ {m}
       IN <<m>> \o SortKeys(others)

GroupKeys(f) ==
  LET keys == {GroupKey(f, r) : r \in 1..Len(f.rows)} IN SortKeys(keys)

\* ("col", "sum") over one group: missing cells are skipped
RECURSIVE GroupSum(_, _, _, _)
GroupSum(f, key, col, r) ==
  IF r > Len(f.rows) THEN 0
  ELSE (IF GroupKey(f, r) = key /\ ~IsNull(Cell(f, r, col))
        THEN Cell(f, r, col)[1] ELSE 0)
       + GroupSum(f, key, col, r + 1)

\* 0.01, in the model's unit
Cent == Pow10(Decimals - 2)

\* .round(2): to the nearest cent, a tie to the even cent
Round2(x) ==
  LET q == x \div Cent
      r == x % Cent
      half == Cent \div 2
  IN IF r < half THEN q * Cent
     ELSE IF r > half THEN (q + 1) * Cent
     ELSE IF q % 2 = 0 THEN q * Cent ELSE (q + 1) * Cent

\* .clip(lower=0)
ClipLower0(x) == IF x < 0 THEN 0 ELSE x

\* The operands of the subtraction exchanged
ReglementPartielSwapped(montant, solde) ==
  LET clipped == ClipLower0(solde - montant) IN Round2(clipped)

\* (Montant_facture - Solde).clip(lower=0).round(2)
ReglementPartiel(montant, solde) ==
  LET clipped == ClipLower0(montant - solde) IN Round2(clipped)

\* one row of synthese
SyntheseRow(f, key) ==
  LET sumDebit == GroupSum(f, key, Debit, 1)
      sumCredit == GroupSum(f, key, Credit, 1)
      sumSolde == GroupSum(f, key, Solde_ligne, 1)
      montant == Round2(sumDebit)
      credit == Round2(sumCredit)
      solde == Round2(sumSolde)
  IN [CompAuxNum |-> key[1], CompAuxLib |-> key[2], PieceRef |-> key[3],
      PieceDate |-> key[4],
      Montant_facture |-> montant, Total_credit |-> credit, Solde |-> solde,
      Reglement_partiel |-> ReglementPartiel(montant, solde)]

Synthese(f) ==
  LET keys == GroupKeys(f)
  IN [i \in 1..Len(keys) |-> LET key == keys[i] IN SyntheseRow(f, key)]

\* Timestamp.date()
DateOf(ts) == SubSeq(ts, 1, 3)

\* synthese["PieceDate"].dt.date <= date_anciennete ; False on NaT
DateFilter(rec, cutoff) ==
  ~IsNull(rec.PieceDate) /\ DateLeq(DateOf(rec.PieceDate), cutoff)

Abs(x) == IF x < 0 THEN 0 - x ELSE x

\* >= in place of >
SoldeFilterAtLeast(rec) == Abs(rec.Solde) >= Cent

\* synthese["Solde"].abs() > 0.01
SoldeFilter(rec) == Abs(rec.Solde) > Cent

\* The last two sort columns exchanged
SortLessRefBeforeDate(a, b) ==
  LET ka == <<a.CompAuxNum, a.PieceRef, a.PieceDate>>
      kb == <<b.CompAuxNum, b.PieceRef, b.PieceDate>>
  IN \E i \in 1..3 : ValLess(ka[i], kb[i], i = 3) /\ \A j \in 1..(i - 1) : ka[j] = kb[j]

\* a sorts before b under sort_values(["CompAuxNum", "PieceDate", "PieceRef"])
SortLess(a, b) ==
  LET ka == <<a.CompAuxNum, a.PieceDate, a.PieceRef>>
      kb == <<b.CompAuxNum, b.PieceDate, b.PieceRef>>
  IN \E i \in 1..3 : ValLess(ka[i], kb[i], i = 2) /\ \A j \in 1..(i - 1) : ka[j] = kb[j]

RECURSIVE InsertSorted(_, _)
InsertSorted(x, s) ==
  IF s = <<>> THEN <<x>>
  ELSE LET first == Head(s)
           rest == Tail(s)
       IN IF SortLess(x, first) THEN <<x>> \o s
          ELSE <<first>> \o InsertSorted(x, rest)

\* sort_values on several columns: a stable sort
RECURSIVE SortValues(_)
SortValues(s) ==
  IF s = <<>> THEN <<>>
  ELSE LET last == s[Len(s)]
           front == SubSeq(s, 1, Len(s) - 1)
           sorted == SortValues(front)
       IN InsertSorted(last, sorted)

\* lines 123-129: the two filters, then the sort
OpenReceivables(synthese, cutoff) ==
  LET due == SelectSeq(synthese, LAMBDA rec : DateFilter(rec, cutoff))
      open == SelectSeq(due, SoldeFilter)
  IN SortValues(open)

\* The call calc_creances_ouvertes(d, cutoff): how it ends (status), what it
\* returns (out), the groups it computed before filtering (synthese), and
\* what the caller's DataFrame holds afterwards (arg).
calc_creances_ouvertes(d, cutoff) ==
  LET local == DfCopy(d)
      frame == local.frame
      hasNum == HasCol(frame, CompteNum)
      asStr == IF hasNum THEN CompteNumAsStr(frame) ELSE frame
      caller == IF local.obj = "copy" THEN d ELSE asStr
      clients == DfClients(asStr)
      soldeOk == HasCol(clients, Debit) /\ HasCol(clients, Credit)
      auxOk == HasCol(clients, CompAuxLib) \/ HasCol(clients, CompteLib)
      withSolde == WithSoldeLigne(clients)
      full == WithAuxCols(withSolde)
      synthese == Synthese(full)
      ends(how) == [status |-> how, out |-> <<>>, synthese |-> <<>>, arg |-> caller]
  IN IF ~hasNum THEN ends("KeyError")
     ELSE IF clients.rows = <<>> THEN ends("warning")
     ELSE IF ~soldeOk \/ ~auxOk THEN ends("KeyError")
     ELSE IF ~HasCol(clients, PieceRef) THEN ends("stopped")
     ELSE IF ~HasCol(clients, PieceDate) THEN ends("KeyError")
     ELSE [status |-> "ok", out |-> OpenReceivables(synthese, cutoff),
           synthese |-> synthese, arg |-> caller]

\* ------------------------------------------------------------------------
\* Files
\* ------------------------------------------------------------------------

\* The columns of a FEC export, in the order the model writes them
FecHeader ==
  <<CompteNum, CompteLib, CompAuxNum, CompAuxLib, PieceRef, PieceDate, Debit, Credit>>

\* The outcome of one pd.read_csv / pd.read_excel call: <<>> when it raises,
\* <<frame>> when it returns frame.
Raises == <<>>

Parsed(f) == <<f>>

CsvName == <<"f", ".", "c", "s", "v">>
XlsxName == <<"f", ".", "x", "l", "s", "x">>
XlsUpperName == <<"F", ".", "X", "L", "S">>

\* for sep in [",", ";", "\t", "|"]
SeparatorsCommaFirst == <<",", ";", "TAB", "|">>

\* for sep in [";", "\t", ",", "|"]
Separators == <<";", "TAB", ",", "|">>

\* if df.shape[1] >= 5
MinColumns == 5

\* An uploaded file: its name, what pd.read_csv makes of its content with
\* each separator, and what pd.read_excel makes of it.
\* A delimited file whose ";" parse is frame: the other separators split
\* nothing and find a single column; read_excel would raise.
UnsplitFrame ==
  [columns |-> << <<"D", ";", "C">> >>, rows |-> << << <<"1", ";", "2">> >> >>]

SemicolonFile(frame) ==
  [name |-> CsvName,
   csv |-> [sep \in {";", "TAB", ",", "|"} |->
              IF sep = ";" THEN Parsed(frame) ELSE Parsed(UnsplitFrame)],
   excel |-> Raises]

\* A workbook: read_excel returns outcome; read_csv would raise
ExcelFile(name, outcome) ==
  [name |-> name,
   csv |-> [sep \in {";", "TAB", ",", "|"} |-> Raises],
   excel |-> outcome]

\* str.lower(), on the letters file names use
Lower(s) ==
  [i \in 1..Len(s) |->
     IF s[i] = "F" THEN "f" ELSE IF s[i] = "X" THEN "x"
     ELSE IF s[i] = "L" THEN "l" ELSE IF s[i] = "S" THEN "s" ELSE s[i]]

\* str.endswith(suffix)
EndsWith(s, suffix) ==
  Len(s) >= Len(suffix) /\ SubSeq(s, Len(s) - Len(suffix) + 1, Len(s)) = suffix

\* filename.endswith(".xlsx") or filename.endswith(".xls")
IsExcelName(name) ==
  LET filename == Lower(name) IN
    \/ EndsWith(filename, <<".", "x", "l", "s", "x">>)
    \/ EndsWith(filename, <<".", "x", "l", "s">>)

\* lire_fec, lines 36-59, on a frame that passes every check: the ledger
\* row set it returns
LedgerOf(frame) ==
  LET stripped == StripColumns(frame)
      withDebit == ConvertAmountCol(stripped, Debit)
      withCredit == ConvertAmountCol(withDebit, Credit)
  IN ConvertDates(withCredit)

\* lire_fec returns on frame: the three columns are there, once each, and
\* every amount parses
Loads(frame) ==
  LET f == StripColumns(frame) IN
    /\ \A c \in {Debit, Credit, PieceDate} : ColCount(f, c) = 1
    /\ ~AmountColRaises(f, Debit)
    /\ ~AmountColRaises(f, Credit)

\* What the page last reported: st.error / st.warning / st.info, or the
\* exception that ended the run
NoMessage == [kind |-> "none", what |-> "", col |-> <<>>, at |-> ""]

Report(kind, what, col, at) == [kind |-> kind, what |-> what, col |-> col, at |-> at]

\* ------------------------------------------------------------------------
\* Bounded inputs of the aggregator
\* ------------------------------------------------------------------------

\* Rows of a ledger
MaxRows == 2

\* Successive calls of calc_creances_ouvertes on one ledger
MaxCalls == 2

Str411 == <<"4", "1", "1", "0">>
Str4411 == <<"4", "4", "1", "1">>
LibA == <<"a">>
LibX == <<"x">>
AuxC10 == <<"C", "1", "0">>
AuxC2 == <<"C", "2">>
RefI10 == <<"I", "1", "0">>
RefI2 == <<"I", "2">>
Jan10 == <<2024, 1, 10, 0>>
Jun01Noon == <<2024, 6, 1, 12>>
Jun02 == <<2024, 6, 2, 0>>
Feb30 == <<2024, 2, 30, 0>>
Jun01 == <<2024, 6, 1>>

Cell1000 == <<"1", " ", "0", "0", "0", ",", "0", "0">>
Cell400 == <<"4", "0", "0", ",", "0", "0">>
Cell0 == <<"0">>

\* Debit and Credit cells as the file holds them: an invoice of 1 000,00, a
\* payment of 400,00, and amounts that fall between two cents
AmountCells ==
  { <<Cell1000, Cell0>>,
    <<Cell0, Cell400>>,
    << <<"0", ",", "0", "1", "5">>, <<"0", ",", "0", "0", "5">> >> }

ClientRows ==
  { <<Str411, LibA, aux, LibA, ref, date, amt[1], amt[2]>> :
      aux \in {AuxC10, AuxC2}, ref \in {RefI10, RefI2},
      date \in {Jan10, Jun01Noon}, amt \in AmountCells }

\* An account that is no customer account, an empty account cell, a date
\* after the cutoff, an unparseable date, a second label for one customer,
\* an empty Credit cell, a negative Credit
EdgeRows ==
  { <<Str4411, LibA, AuxC10, LibA, RefI10, Jan10, Cell1000, Cell0>>,
    <<NaN, LibA, AuxC10, LibA, RefI10, Jan10, Cell1000, Cell0>>,
    <<Str411, LibA, AuxC10, LibA, RefI10, Jun02, Cell1000, Cell0>>,
    <<Str411, LibA, AuxC10, LibA, RefI10, Feb30, Cell1000, Cell0>>,
    <<Str411, LibA, AuxC10, LibX, RefI10, Jan10, Cell1000, Cell0>>,
    <<Str411, LibA, AuxC10, LibA, RefI10, Jan10, Cell1000, NaN>>,
    <<Str411, LibA, AuxC10, LibA, RefI10, Jan10, Cell0, <<"-", "5", "0", ",", "0", "0">> >> }

AggRows == ClientRows \cup EdgeRows

AggFrames ==
  { [columns |-> FecHeader, rows |-> rows] :
      rows \in UNION {[1..n -> AggRows] : n \in 0..MaxRows} }

\* ------------------------------------------------------------------------
\* The aggregator called on the ledgers lire_fec returns
\* ------------------------------------------------------------------------

InitAgg ==
  /\ \E frame \in AggFrames :
       /\ Loads(frame)
       /\ uploaded_file = SemicolonFile(frame)
       /\ df_fec = Parsed(LedgerOf(frame))
  /\ date_anciennete = Jun01
  /\ pc = "loaded"
  /\ sepIdx = 1
  /\ df = Raises
  /\ colIdx = 1
  /\ message = NoMessage
  /\ df_ouvert = <<>>
  /\ shown = {"success"}
  /\ calls = <<>>

\* One call of calc_creances_ouvertes(df_fec, date_anciennete)
CallCalc ==
  /\ pc = "loaded"
  /\ Len(calls) < MaxCalls
  /\ \E res \in {calc_creances_ouvertes(df_fec[1], date_anciennete)} :
       /\ calls' = Append(calls, [status |-> res.status, out |-> res.out,
                                  synthese |-> res.synthese])
       /\ df_fec' = Parsed(res.arg)
  /\ UNCHANGED <<uploaded_file, pc, sepIdx, df, colIdx, message,
                 date_anciennete, df_ouvert, shown>>

NextAgg == CallCalc

SpecAgg == InitAgg /\ [][NextAgg]_vars

\* ------------------------------------------------------------------------
\* Bounded inputs of the page
\* ------------------------------------------------------------------------

\* Data rows of an uploaded file
MaxFileRows == 1

PaddedCredit == <<" ">> \o Credit

\* Header cells a file may hold, in file order: the eight FEC columns, and a
\* Credit header written with a leading space
RawNames == FecHeader \o <<PaddedCredit>>

RawNameSet == {RawNames[i] : i \in 1..Len(RawNames)}

BadDebitCell == <<"1", ".", "2", "3", "4", ",", "5", "6">>
BadCreditCell == <<"x">>

\* Debit and Credit cells of a row: both parse, Debit does not, Credit does not
FlowAmounts == {<<Cell1000, Cell0>>, <<BadDebitCell, Cell0>>, <<Cell1000, BadCreditCell>>}

FlowCell(name, amt) ==
  IF name = CompteNum THEN Str411
  ELSE IF name = CompAuxNum THEN AuxC10
  ELSE IF name = PieceRef THEN RefI10
  ELSE IF name = PieceDate THEN Jan10
  ELSE IF name = Debit THEN amt[1]
  ELSE IF name \in {Credit, PaddedCredit} THEN amt[2]
  ELSE LibA

FlowFrame(present, amts) ==
  LET header == SelectSeq(RawNames, LAMBDA name : name \in present)
  IN [columns |-> header,
      rows |-> [r \in 1..Len(amts) |->
                  [c \in 1..Len(header) |-> FlowCell(header[c], amts[r])]]]

FlowFrames ==
  { FlowFrame(present, amts) :
      present \in (SUBSET RawNameSet) \ {{}},
      amts \in UNION {[1..n -> FlowAmounts] : n \in 0..MaxFileRows} }

\* A frame of the first width FEC columns, one row
WidthFrame(width) == FlowFrame({FecHeader[c] : c \in 1..width}, << <<Cell1000, Cell0>> >>)

\* Delimited files by what each separator makes of them: an exception, or a
\* frame of 1, 4, 5, 6 or 8 columns
DelimiterFiles ==
  { [name |-> CsvName, csv |-> reads, excel |-> Raises] :
      reads \in [{";", "TAB", ",", "|"} ->
                   {Raises} \cup {Parsed(WidthFrame(w)) : w \in {1, 4, 5, 6, 8}}] }

\* Files by their header and cells: ";"-delimited text and workbooks, and a
\* workbook read_excel cannot open
HeaderFiles ==
  {SemicolonFile(frame) : frame \in FlowFrames}
    \cup {ExcelFile(XlsUpperName, Parsed(frame)) : frame \in FlowFrames}
    \cup {ExcelFile(XlsxName, Raises)}

\* ------------------------------------------------------------------------
\* The page: upload, lire_fec, calc_creances_ouvertes, the tables
\* ------------------------------------------------------------------------

Init ==
  /\ uploaded_file \in DelimiterFiles \cup HeaderFiles
  /\ date_anciennete = Jun01
  /\ pc = "lire_fec"
  /\ sepIdx = 1
  /\ df = Raises
  /\ colIdx = 1
  /\ message = NoMessage
  /\ df_fec = Raises
  /\ df_ouvert = <<>>
  /\ shown = {}
  /\ calls = <<>>

\* lines 12-18: a workbook is read at once, a text file enters the loop
Open ==
  /\ pc = "lire_fec"
  /\ IF IsExcelName(uploaded_file.name)
     THEN IF uploaded_file.excel = Raises
          THEN /\ pc' = "raised"
               /\ message' = Report("exception", "read_excel", <<>>, "lire_fec")
               /\ df' = df
          ELSE /\ pc' = "normalize"
               /\ df' = uploaded_file.excel
               /\ message' = message
     ELSE /\ pc' = "loop"
          /\ UNCHANGED <<df, message>>
  /\ UNCHANGED <<uploaded_file, sepIdx, colIdx, df_fec, date_anciennete,
                 df_ouvert, shown, calls>>

\* lines 19-31: one iteration of the loop over the separators
TrySep ==
  /\ pc = "loop"
  /\ \E read \in {uploaded_file.csv[Separators[sepIdx]]} :
       /\ df' = read
       /\ IF read # Raises /\ Len(read[1].columns) >= MinColumns
          THEN pc' = "read" /\ sepIdx' = sepIdx
          ELSE IF sepIdx < Len(Separators)
          THEN pc' = "loop" /\ sepIdx' = sepIdx + 1
          ELSE pc' = "read" /\ sepIdx' = sepIdx
  /\ UNCHANGED <<uploaded_file, colIdx, message, df_fec, date_anciennete,
                 df_ouvert, shown, calls>>

\* lines 32-34: if df is None: st.error(...); st.stop()
CheckRead ==
  /\ pc = "read"
  /\ IF df = Raises
     THEN /\ pc' = "stopped"
          /\ message' = Report("error", "Impossible de lire le fichier", <<>>, "lire_fec")
     ELSE /\ pc' = "normalize"
          /\ message' = message
  /\ UNCHANGED <<uploaded_file, sepIdx, df, colIdx, df_fec, date_anciennete,
                 df_ouvert, shown, calls>>

\* line 37
Normalize ==
  /\ pc = "normalize"
  /\ df' = Parsed(StripColumns(df[1]))
  /\ pc' = "amounts"
  /\ UNCHANGED <<uploaded_file, sepIdx, colIdx, message, df_fec, date_anciennete,
                 df_ouvert, shown, calls>>

\* for col in ["Debit", "Credit"]
AmountCols == <<Debit, Credit>>

\* lines 40-50: one iteration of the loop over the amount columns. With the
\* column there twice df[col] is a DataFrame, which has no .str.
ConvertAmount ==
  /\ pc = "amounts"
  /\ \E col \in {AmountCols[colIdx]} :
       IF ~HasCol(df[1], col)
       THEN /\ pc' = "stopped"
            /\ message' = Report("error", "Colonne manquante dans le FEC", col, "lire_fec")
            /\ UNCHANGED <<df, colIdx>>
       ELSE IF ColCount(df[1], col) > 1
       THEN /\ pc' = "raised"
            /\ message' = Report("exception", "AttributeError", col, "lire_fec")
            /\ UNCHANGED <<df, colIdx>>
       ELSE IF AmountColRaises(df[1], col)
       THEN /\ pc' = "raised"
            /\ message' = Report("exception", "ValueError", col, "lire_fec")
            /\ UNCHANGED <<df, colIdx>>
       ELSE /\ df' = Parsed(ConvertAmountCol(df[1], col))
            /\ message' = message
            /\ IF colIdx < Len(AmountCols)
               THEN pc' = "amounts" /\ colIdx' = colIdx + 1
               ELSE pc' = "dates" /\ colIdx' = colIdx
  /\ UNCHANGED <<uploaded_file, sepIdx, df_fec, date_anciennete, df_ouvert,
                 shown, calls>>

\* lines 53-59, and line 226 once lire_fec has returned. With the column
\* there twice pd.to_datetime is handed a DataFrame and raises.
ConvertDate ==
  /\ pc = "dates"
  /\ IF ~HasCol(df[1], PieceDate)
     THEN /\ pc' = "stopped"
          /\ message' = Report("error", "Colonne 'PieceDate' manquante dans le FEC",
                               PieceDate, "lire_fec")
          /\ UNCHANGED <<df, df_fec, shown>>
     ELSE IF ColCount(df[1], PieceDate) > 1
     THEN /\ pc' = "raised"
          /\ message' = Report("exception", "ValueError", PieceDate, "lire_fec")
          /\ UNCHANGED <<df, df_fec, shown>>
     ELSE /\ \E ledger \in {ConvertDates(df[1])} :
               df' = Parsed(ledger) /\ df_fec' = Parsed(ledger)
          /\ pc' = "loaded"
          /\ shown' = shown \cup {"success"}
          /\ message' = message
  /\ UNCHANGED <<uploaded_file, sepIdx, colIdx, date_anciennete, df_ouvert, calls>>

\* line 242: df_ouvert = calc_creances_ouvertes(df_fec, date_anciennete)
CalcOpen ==
  /\ pc = "loaded"
  /\ \E res \in {calc_creances_ouvertes(df_fec[1], date_anciennete)} :
       /\ df_fec' = Parsed(res.arg)
       /\ df_ouvert' = res.out
       /\ calls' = Append(calls, [status |-> res.status, out |-> res.out,
                                  synthese |-> res.synthese])
       /\ IF res.status = "KeyError"
          THEN /\ pc' = "raised"
               /\ message' = Report("exception", "KeyError", <<>>, "calc_creances_ouvertes")
          ELSE IF res.status = "stopped"
          THEN /\ pc' = "stopped"
               /\ message' = Report("error", "La colonne 'PieceRef' est manquante",
                                    PieceRef, "calc_creances_ouvertes")
          ELSE IF res.status = "warning"
          THEN /\ pc' = "synthese"
               /\ message' = Report("warning", "Aucune ecriture de compte 411*", <<>>,
                                    "calc_creances_ouvertes")
          ELSE /\ pc' = "synthese"
               /\ message' = message
  /\ shown' = shown \cup {"aggregation"}
  /\ UNCHANGED <<uploaded_file, sepIdx, df, colIdx, date_anciennete>>

\* lines 244-253: nothing open ends the run, else the table is shown
ShowSynthese ==
  /\ pc = "synthese"
  /\ IF df_ouvert = <<>>
     THEN /\ pc' = "stopped"
          /\ message' = Report("info", "Aucune creance ouverte", <<>>, "page")
          /\ shown' = shown
     ELSE /\ pc' = "client"
          /\ message' = message
          /\ shown' = shown \cup {"table"}
  /\ UNCHANGED <<uploaded_file, sepIdx, df, colIdx, df_fec, date_anciennete,
                 df_ouvert, calls>>

\* df_ouvert[df_ouvert["CompAuxNum"] == client_code]
TableauClient(ouvert, client_code) ==
  SelectSeq(ouvert, LAMBDA rec : rec.CompAuxNum = client_code)

\* lines 255-312: the first customer is selected; its table, the workbook to
\* download and the proposed mail are shown
PrepareClient ==
  /\ pc = "client"
  /\ \E client_code \in {df_ouvert[1].CompAuxNum} :
       IF TableauClient(df_ouvert, client_code) = <<>>
       THEN /\ message' = Report("warning", "Aucune creance ouverte pour ce client", <<>>,
                                 "page")
            /\ shown' = shown \cup {"selection"}
       ELSE /\ message' = message
            /\ shown' = shown \cup {"selection", "tableau", "export", "mail"}
  /\ pc' = "done"
  /\ UNCHANGED <<uploaded_file, sepIdx, df, colIdx, df_fec, date_anciennete,
                 df_ouvert, calls>>

Next ==
  \/ Open
  \/ TrySep
  \/ CheckRead
  \/ Normalize
  \/ ConvertAmount
  \/ ConvertDate
  \/ CalcOpen
  \/ ShowSynthese
  \/ PrepareClient

Spec == Init /\ [][Next]_vars

\* ------------------------------------------------------------------------
\* Properties of the aggregator (checked under SpecAgg)
\* ------------------------------------------------------------------------

\* The ledger lire_fec returned for the uploaded file
LoadedLedger == LedgerOf(uploaded_file.csv[";"][1])

OutIdx(k) == 1..Len(calls[k].out)

\* C1: every record calc_creances_ouvertes returns has |Solde| > 0.01 and a
\* PieceDate that is not null and whose calendar date is <= the cutoff
\* date; so no group with a null date, a zero balance or a date after the
\* cutoff is in the output.
C1_OutputOpenAndDue ==
  \A k \in 1..Len(calls) : \A i \in OutIdx(k) :
    LET rec == calls[k].out[i] IN
      /\ (rec.Solde > Cent \/ rec.Solde < 0 - Cent)
      /\ rec.PieceDate # NaN
      /\ DateLeq(<<rec.PieceDate[1], rec.PieceDate[2], rec.PieceDate[3]>>,
                 date_anciennete)

\* A call that kept a record and dropped another group
C1_Witness ==
  \E k \in 1..Len(calls) :
    /\ calls[k].out # <<>>
    /\ Len(calls[k].out) < Len(calls[k].synthese)

RowsOf(f, rec) ==
  {r \in 1..Len(f.rows) :
     /\ StartsWith(Cell(f, r, CompteNum), Prefix411)
     /\ Cell(f, r, CompAuxNum) = rec.CompAuxNum
     /\ Cell(f, r, CompAuxLib) = rec.CompAuxLib
     /\ Cell(f, r, PieceRef) = rec.PieceRef
     /\ Cell(f, r, PieceDate) = rec.PieceDate}

\* The sum of term over the rows in S, a missing term adding nothing
RECURSIVE SumOver(_, _)
SumOver(S, term) ==
  IF S = {} THEN 0
  ELSE LET r == CHOOSE x \in S : TRUE
       IN (IF term[r] = NaN THEN 0 ELSE term[r][1]) + SumOver(S \ {r}, term)

DebitOf(f) == [r \in 1..Len(f.rows) |-> Cell(f, r, Debit)]

CreditOf(f) == [r \in 1..Len(f.rows) |-> Cell(f, r, Credit)]

DebitMinusCreditOf(f) ==
  [r \in 1..Len(f.rows) |->
     IF Cell(f, r, Debit) = NaN \/ Cell(f, r, Credit) = NaN THEN NaN
     ELSE <<Cell(f, r, Debit)[1] - Cell(f, r, Credit)[1]>>]

SameKey(a, b) ==
  /\ a.CompAuxNum = b.CompAuxNum
  /\ a.CompAuxLib = b.CompAuxLib
  /\ a.PieceRef = b.PieceRef
  /\ a.PieceDate = b.PieceDate

\* Two lines of one invoice: Debit 1000, then Credit 400
ExampleLedger ==
  [columns |-> FecHeader,
   rows |-> << <<Str411, LibA, AuxC10, LibA, RefI10, Jan10, <<1000000>>, <<0>> >>,
               <<Str411, LibA, AuxC10, LibA, RefI10, Jan10, <<0>>, <<400000>> >> >>]

ExampleRecord ==
  [CompAuxNum |-> AuxC10, CompAuxLib |-> LibA, PieceRef |-> RefI10, PieceDate |-> Jan10,
   Montant_facture |-> 1000000, Total_credit |-> 400000, Solde |-> 600000,
   Reglement_partiel |-> 400000]

\* C8: each returned record has Montant_facture, Total_credit and Solde equal
\* to the sums of Debit, of Credit and of Debit - Credit, each rounded to 2
\* decimals, over exactly the ledger rows whose CompteNum starts with "411"
\* and whose (CompAuxNum, CompAuxLib, PieceRef, PieceDate) is the record's
\* (missing terms skipped); no two records share a key; and the two-line
\* example gives 1000, 400, 600 and 400.
C8_SumsOverOwnRows ==
  LET ledger == LoadedLedger
      debit == DebitOf(ledger)
      credit == CreditOf(ledger)
      balance == DebitMinusCreditOf(ledger)
  IN \A k \in 1..Len(calls) :
       /\ \A i \in OutIdx(k) :
            LET rec == calls[k].out[i]
                own == RowsOf(ledger, rec)
            IN /\ rec.Montant_facture = Round2(SumOver(own, debit))
               /\ rec.Total_credit = Round2(SumOver(own, credit))
               /\ rec.Solde = Round2(SumOver(own, balance))
       /\ \A i, j \in OutIdx(k) : i # j => ~SameKey(calls[k].out[i], calls[k].out[j])
       /\ (ledger = ExampleLedger /\ Decimals = 3)
            => calls[k].out = <<ExampleRecord>>

\* The example has been aggregated
C8_Witness ==
  /\ LoadedLedger = ExampleLedger
  /\ calls # <<>>
  /\ calls[1].out = <<ExampleRecord>>

\* C9: successive calls on the same ledger and cutoff date return the same
\* output, and the caller's ledger is what it was before the first call.
C9_SecondCallSame ==
  /\ \A k \in 1..Len(calls) : calls[k] = calls[1]
  /\ df_fec = Parsed(LoadedLedger)

\* Two calls, on a ledger with an empty CompteNum cell, with a record returned
C9_Witness ==
  /\ Len(calls) >= 2
  /\ calls[2].out # <<>>
  /\ \E r \in 1..Len(LoadedLedger.rows) : Cell(LoadedLedger, r, CompteNum) = NaN

\* a <= b for two strings
StrLeq(a, b) == a = b \/ StrLess(a, b)

\* C10: the returned records are in ascending order of (CompAuxNum,
\* PieceDate, PieceRef), and the records of one CompAuxNum are contiguous.
C10_SortedByClientDateRef ==
  \A k \in 1..Len(calls) :
    LET out == calls[k].out IN
      /\ \A i \in 1..(Len(out) - 1) :
           \/ StrLess(out[i].CompAuxNum, out[i + 1].CompAuxNum)
           \/ /\ out[i].CompAuxNum = out[i + 1].CompAuxNum
              /\ \/ TsLess(out[i].PieceDate, out[i + 1].PieceDate)
                 \/ /\ out[i].PieceDate = out[i + 1].PieceDate
                    /\ StrLeq(out[i].PieceRef, out[i + 1].PieceRef)
      /\ \A i, j \in 1..Len(out) : \A m \in i..j :
           out[i].CompAuxNum = out[j].CompAuxNum
             => out[m].CompAuxNum = out[i].CompAuxNum

\* Two records of one customer and one date, told apart by PieceRef
C10_Witness ==
  \E k \in 1..Len(calls) :
    /\ Len(calls[k].out) >= 2
    /\ calls[k].out[1].CompAuxNum = calls[k].out[2].CompAuxNum
    /\ calls[k].out[1].PieceDate = calls[k].out[2].PieceDate
    /\ calls[k].out[1].PieceRef # calls[k].out[2].PieceRef

\* ------------------------------------------------------------------------
\* Properties of the page, under Spec
\* ------------------------------------------------------------------------

IsTextUpload == ~IsExcelName(uploaded_file.name)

\* The run is over: the page is drawn, st.stop() was called, or an exception
\* left the script
Ended == pc \in {"done", "stopped", "raised"}

\* What the separator makes of the uploaded text has at least 5 columns
MeetsThreshold(sep) ==
  /\ uploaded_file.csv[sep] # Raises
  /\ Len(uploaded_file.csv[sep][1].columns) >= 5

\* C3: for a delimited-text file the delimiters are tried in the order
\* semicolon, tab, comma, pipe: while the loop runs every candidate before the
\* current one has failed, and once the loop is left with a candidate that
\* parsed with at least 5 columns, the frame in use is the parse of the first
\* such candidate in that order and no later candidate was tried.
C3_FirstWideEnoughUsed ==
  LET order == <<";", "TAB", ",", "|">>
      first(i) == MeetsThreshold(order[i]) /\ \A j \in 1..(i - 1) : ~MeetsThreshold(order[j])
  IN IsTextUpload =>
       /\ pc = "loop" => \A j \in 1..(sepIdx - 1) : ~MeetsThreshold(order[j])
       /\ pc \in {"read", "normalize"} =>
            \A i \in 1..4 :
              first(i) => /\ Separators[sepIdx] = order[i]
                          /\ sepIdx = i
                          /\ df = uploaded_file.csv[order[i]]

\* A text file that ";" splits into 6 columns and "," into at least 5, read
\* with ";"
C3_Witness ==
  /\ IsTextUpload
  /\ pc = "normalize"
  /\ Len(uploaded_file.csv[";"][1].columns) = 6
  /\ MeetsThreshold(",")
  /\ uploaded_file.csv[","] # uploaded_file.csv[";"]
  /\ df = uploaded_file.csv[";"]

\* C4: for a delimited-text file none of whose four candidates parses with at
\* least 5 columns, once the loop is over lire_fec has reported the
\* cannot-read error and stopped, and no frame is normalised, returned or
\* aggregated.
C4_NoCandidateReportsError ==
  ( /\ IsTextUpload
    /\ \A sep \in {";", "TAB", ",", "|"} : ~MeetsThreshold(sep)
    /\ pc \notin {"lire_fec", "loop", "read"} )
  => /\ pc = "stopped"
     /\ message.kind = "error"
     /\ message.what = "Impossible de lire le fichier"
     /\ df_fec = Raises
     /\ shown = {}

\* The frames the uploaded file is read as: the sheet of a workbook, what a
\* separator splits a text into at least 5 columns
FramesOfFile ==
  IF IsExcelName(uploaded_file.name)
  THEN {uploaded_file.excel} \ {Raises}
  ELSE {uploaded_file.csv[sep] : sep \in {sp \in {";", "TAB", ",", "|"} : MeetsThreshold(sp)}}

\* The file can be read, and its trimmed headers lack col
Lacks(col) ==
  /\ FramesOfFile # {}
  /\ \A read \in FramesOfFile : ~HasCol(StripColumns(read[1]), col)

\* C5: for a file whose trimmed headers lack one of Debit, Credit, PieceDate,
\* lire_fec returns no ledger and nothing of the later flow runs, and the run
\* ends stopped on an error of lire_fec that names a column the file lacks:
\* Credit, for a file that has Debit and lacks Credit.
C5_MissingColumnNamed ==
  \A col \in {Debit, Credit, PieceDate} :
    Lacks(col) =>
      /\ df_fec = Raises
      /\ shown = {}
      /\ Ended =>
           /\ pc = "stopped"
           /\ message.kind = "error"
           /\ message.at = "lire_fec"
           /\ message.col \in {Debit, Credit, PieceDate}
           /\ Lacks(message.col)
           /\ (col = Credit /\ ~Lacks(Debit)) => message.col = Credit

\* C6: lire_fec never ends in an exception: it returns a ledger, or it has
\* reported an error and stopped without one.
C6_ReturnsOrReports ==
  /\ ~(pc = "raised" /\ message.at = "lire_fec")
  /\ (pc = "stopped" /\ message.at = "lire_fec") =>
       message.kind = "error" /\ df_fec = Raises
  /\ pc \in {"loaded", "synthese", "client", "done"} => df_fec # Raises

\* C7: for a file lire_fec returns a ledger for and that has PieceRef,
\* whichever of CompteNum, CompteLib, CompAuxNum, CompAuxLib it lacks,
\* calc_creances_ouvertes ends in a result or a notice, never in an
\* exception, and in its records an absent CompAuxNum is the CompteNum and an
\* absent CompAuxLib the CompteLib of a ledger row.
C7_OptionalColumnsMayBeAbsent ==
  (df_fec # Raises /\ HasCol(df_fec[1], PieceRef)) =>
    LET ledger == df_fec[1]
        rowHas(col, val) == \E r \in 1..Len(ledger.rows) : Cell(ledger, r, col) = val
    IN /\ pc # "raised"
       /\ \A k \in 1..Len(calls) :
            /\ calls[k].status \in {"ok", "warning"}
            /\ \A i \in OutIdx(k) :
                 /\ ~HasCol(ledger, CompAuxNum) => rowHas(CompteNum, calls[k].out[i].CompAuxNum)
                 /\ ~HasCol(ledger, CompAuxLib) => rowHas(CompteLib, calls[k].out[i].CompAuxLib)

====
